---- MODULE Spec2Model ----
(***************************************************************************)
(* Model of crates/bevy_sprite/src/mesh2d/mesh.rs: the 2d mesh pipeline    *)
(* key, the specialization cache, texture lookup, extraction, bind group   *)
(* queuing and the draw commands.                                          *)
(***************************************************************************)
EXTENDS Integers, Sequences, FiniteSets, TLC

VARIABLES
    key_in, key, key_out,                          \* pipeline key encode/decode
    gpu_images, tex_in, tex_out,                   \* get_image_texture
    cache, pipelines, specialize_calls, served,    \* SpecializedPipelines<Mesh2dPipeline>
    pc,                \* the stage the frame is in
    frame,             \* the tag of the current frame (cyclic)
    queue_done,        \* the systems of RenderStage::Queue that have run in this frame
    world,             \* simulation world: visibility and transform of each mesh entity
    cameras,           \* simulation world: the active cameras
    views,             \* render world: the components of each extracted view
    view_uniforms,     \* ViewUniforms: the aggregated view uniform buffer
    rendered_view,     \* the view whose render phase is drawn in this frame
    values,            \* extract_mesh2d's values vector while the system runs
    visited,           \* the entities the query of extract_mesh2d has yielded so far
    previous_len,      \* extract_mesh2d's Local<usize>
    render,            \* render world: the components of each extracted entity
    prev_records,      \* the entities that had a render-world record in the previous frame
    uniform_buffer,    \* ComponentUniforms<Mesh2dUniform>: the aggregated buffer
    mesh_bind_group,   \* the Mesh2dBindGroup resource
    device_calls,      \* RenderDevice calls made in this frame
    gpu_meshes,        \* RenderAssets<Mesh>
    phase,             \* the frame's draw items
    pass,              \* TrackedRenderPass: the commands recorded in this frame
    outcomes           \* the RenderCommandResult of each processed draw item

keyVars == <<key_in, key, key_out>>
texVars == <<gpu_images, tex_in, tex_out>>
cacheVars == <<cache, pipelines, specialize_calls, served>>
frameVars == <<pc, frame, queue_done, world, cameras, views, view_uniforms, rendered_view, values, visited,
               previous_len, render, prev_records, uniform_buffer, mesh_bind_group,
               device_calls, gpu_meshes, phase, pass, outcomes>>
vars == <<keyVars, texVars, cacheVars, frameVars>>

(***************************************************************************)
(* u32 values are bit vectors: bit i carries 2^i.                          *)
(***************************************************************************)
W == 32
BitIdx == 0..(W - 1)
U32Zero == [i \in BitIdx |-> 0]

\* The u32 holding the natural number n (n < 2^31).
ToU32(n) == [i \in BitIdx |-> IF i = W - 1 THEN 0 ELSE (n \div (2 ^ i)) % 2]

RECURSIVE U32SumFrom(_, _)
U32SumFrom(b, i) == IF i = W - 1 THEN 0 ELSE b[i] * (2 ^ i) + U32SumFrom(b, i + 1)

\* The natural number held by b (used on values below 2^31 only).
ToNat(b) == U32SumFrom(b, 0)

BitAnd(a, b) == [i \in BitIdx |-> a[i] * b[i]]
BitOr(a, b) == [i \in BitIdx |-> IF a[i] = 1 \/ b[i] = 1 THEN 1 ELSE 0]
BitNot(a) == [i \in BitIdx |-> 1 - a[i]]
Shl(a, s) == [i \in BitIdx |-> IF i >= s THEN a[i - s] ELSE 0]
Shr(a, s) == [i \in BitIdx |-> IF i + s <= W - 1 THEN a[i + s] ELSE 0]

\* a - 1 with two's complement wrap-around.
WrappingSub1(a) == [i \in BitIdx |-> IF \A j \in 0..(i - 1) : a[j] = 0 THEN 1 - a[i] ELSE a[i]]

(***************************************************************************)
(* PrimitiveTopology and its `as u32` ordinals.                            *)
(***************************************************************************)
PointList == 0
LineList == 1
LineStrip == 2
TriangleList == 3
TriangleStrip == 4

Topologies == {"PointList", "LineList", "LineStrip", "TriangleList", "TriangleStrip"}

TopologyOrdinal(t) ==
    CASE t = "PointList" -> PointList
      [] t = "LineList" -> LineList
      [] t = "LineStrip" -> LineStrip
      [] t = "TriangleList" -> TriangleList
      [] t = "TriangleStrip" -> TriangleStrip

PrimitiveTopologyDefault == "TriangleList"

(***************************************************************************)
(* Mesh2dPipelineKey                                                       *)
(***************************************************************************)
MSAA_MASK_BITS == ToU32(63)
MSAA_SHIFT_BITS == 32 - 6
PRIMITIVE_TOPOLOGY_MASK_BITS == ToU32(7)
PRIMITIVE_TOPOLOGY_SHIFT_BITS_off_by_one == MSAA_SHIFT_BITS - 2

PRIMITIVE_TOPOLOGY_SHIFT_BITS == MSAA_SHIFT_BITS - 3

NONE == U32Zero
VERTEX_TANGENTS == Shl(ToU32(1), 0)
MSAA_RESERVED_BITS == Shl(MSAA_MASK_BITS, MSAA_SHIFT_BITS)
PRIMITIVE_TOPOLOGY_RESERVED_BITS == Shl(PRIMITIVE_TOPOLOGY_MASK_BITS, PRIMITIVE_TOPOLOGY_SHIFT_BITS)

\* bitflags: all() is the union of the declared flags.
KeyAll == BitOr(BitOr(NONE, VERTEX_TANGENTS), BitOr(MSAA_RESERVED_BITS, PRIMITIVE_TOPOLOGY_RESERVED_BITS))

NoKey == [tag |-> "none"]
KeyPanic == [tag |-> "panic"]
KeySome(b) == [tag |-> "key", bits |-> b]

\* bitflags from_bits(..).unwrap(): a key when no undeclared bit is set, a panic otherwise.
from_bits_unwrap(b) == IF BitAnd(b, BitNot(KeyAll)) = U32Zero THEN KeySome(b) ELSE KeyPanic

\* bitflags contains(): every bit of flag is set in b.
contains(b, flag) == BitAnd(b, flag) = flag

\* The outcomes of from_msaa_samples: `msaa_samples - 1` on 0 panics when
\* overflow checks are compiled in and wraps when they are not.
from_msaa_samples(msaa_samples) ==
    {from_bits_unwrap(Shl(BitAnd(WrappingSub1(ToU32(msaa_samples)), MSAA_MASK_BITS), MSAA_SHIFT_BITS))}
        \cup (IF msaa_samples = 0 THEN {KeyPanic} ELSE {})

msaa_samples_no_plus_one(b) == ToNat(BitAnd(Shr(b, MSAA_SHIFT_BITS), MSAA_MASK_BITS))

msaa_samples(b) == ToNat(BitAnd(Shr(b, MSAA_SHIFT_BITS), MSAA_MASK_BITS)) + 1

from_primitive_topology(primitive_topology) ==
    from_bits_unwrap(Shl(BitAnd(ToU32(TopologyOrdinal(primitive_topology)), PRIMITIVE_TOPOLOGY_MASK_BITS),
                         PRIMITIVE_TOPOLOGY_SHIFT_BITS))

primitive_topology_first_default(b) ==
    LET primitive_topology_bits == ToNat(BitAnd(Shr(b, PRIMITIVE_TOPOLOGY_SHIFT_BITS), PRIMITIVE_TOPOLOGY_MASK_BITS))
    IN  CASE primitive_topology_bits = LineList -> "LineList"
          [] primitive_topology_bits = LineStrip -> "LineStrip"
          [] primitive_topology_bits = TriangleList -> "TriangleList"
          [] primitive_topology_bits = TriangleStrip -> "TriangleStrip"
          [] OTHER -> "PointList"

primitive_topology(b) ==
    LET primitive_topology_bits == ToNat(BitAnd(Shr(b, PRIMITIVE_TOPOLOGY_SHIFT_BITS), PRIMITIVE_TOPOLOGY_MASK_BITS))
    IN  CASE primitive_topology_bits = PointList -> "PointList"
          [] primitive_topology_bits = LineList -> "LineList"
          [] primitive_topology_bits = LineStrip -> "LineStrip"
          [] primitive_topology_bits = TriangleList -> "TriangleList"
          [] primitive_topology_bits = TriangleStrip -> "TriangleStrip"
          [] OTHER -> PrimitiveTopologyDefault

\* bitflags `|` on keys; a panic in an operand propagates.
KeyUnion(a, b) == IF a.tag = "key" /\ b.tag = "key" THEN KeySome(BitOr(a.bits, b.bits)) ELSE KeyPanic

\* The key a caller builds from a sample count, a topology and the tangents flag.
EncodeKey(msaaKey, topology, tangents) ==
    KeyUnion(KeyUnion(msaaKey, from_primitive_topology(topology)),
             KeySome(IF tangents THEN VERTEX_TANGENTS ELSE NONE))

DecodedKey(b) ==
    [msaa_samples |-> msaa_samples(b),
     primitive_topology |-> primitive_topology(b),
     tangents |-> contains(b, VERTEX_TANGENTS)]

\* Bounds and input sets of the key specification.
MaxSampleInput == 129
SampleInputs == 0..MaxSampleInput
LegalSamples == 1..64
RawJunk == {0, 1, (2 ^ 22) - 1}
RawMsaaFields == {0, 21, 63}

\* An arbitrary u32 bit pattern assembled field by field.
RawBits(f, junk, ord, m) ==
    BitOr(BitOr(ToU32(f), Shl(ToU32(junk), 1)),
          BitOr(Shl(ToU32(ord), 23), Shl(ToU32(m), 26)))

NoInput == [tag |-> "none"]
NoOutput == [tag |-> "none"]

BuiltInputs ==
    {[tag |-> "built", msaa_samples |-> n, topology |-> t, tangents |-> f] :
        n \in SampleInputs, t \in Topologies, f \in BOOLEAN}

RawInputs ==
    {[tag |-> "raw", flag |-> f, junk |-> j, ordinal |-> ord, msaa |-> m] :
        f \in 0..1, j \in RawJunk, ord \in 0..7, m \in RawMsaaFields}

\* The inputs of one encode/decode run are drawn here.
KeyIdle ==
    /\ key_in = NoInput
    /\ key = NoKey
    /\ key_out = NoOutput

\* from_msaa_samples(n) | from_primitive_topology(t) | VERTEX_TANGENTS?
BuildKey ==
    /\ key_in.tag = "built"
    /\ key = NoKey
    /\ \E mk \in from_msaa_samples(key_in.msaa_samples) :
          key' = EncodeKey(mk, key_in.topology, key_in.tangents)
    /\ UNCHANGED <<key_in, key_out>>
    /\ UNCHANGED <<texVars, cacheVars, frameVars>>

\* A key value that was not produced by the encoders.
RawKey ==
    /\ key_in.tag = "raw"
    /\ key = NoKey
    /\ key' = KeySome(RawBits(key_in.flag, key_in.junk, key_in.ordinal, key_in.msaa))
    /\ UNCHANGED <<key_in, key_out>>
    /\ UNCHANGED <<texVars, cacheVars, frameVars>>

\* msaa_samples(), primitive_topology() and contains(VERTEX_TANGENTS) on the key.
DecodeKey ==
    /\ key.tag = "key"
    /\ key_out.tag = "none"
    /\ key_out' = [tag |-> "decoded"] @@ DecodedKey(key.bits)
    /\ UNCHANGED <<key_in, key>>
    /\ UNCHANGED <<texVars, cacheVars, frameVars>>

NextKey == BuildKey \/ RawKey \/ DecodeKey

(***************************************************************************)
(* Mesh2dPipeline::get_image_texture                                       *)
(***************************************************************************)
NumImages == 4
ImageHandles == 1..NumImages

\* The GpuImage the registry holds for an uploaded image.
GpuImage(h) == [texture_view |-> [of |-> "image", handle |-> h],
                sampler |-> [of |-> "image", handle |-> h]]

dummy_white_gpu_image == [texture_view |-> [of |-> "dummy_white"],
                          sampler |-> [of |-> "dummy_white"]]

NoHandle == [tag |-> "None"]
SomeHandle(h) == [tag |-> "Some", handle |-> h]
TexNone == [tag |-> "None"]
TexSome(view, sampler) == [tag |-> "Some", texture_view |-> view, sampler |-> sampler]
TexNotCalled == [tag |-> "not called"]

get_image_texture_dummy_when_missing(images, handle_option) ==
    IF handle_option.tag = "Some" /\ handle_option.handle \in DOMAIN images
    THEN TexSome(images[handle_option.handle].texture_view, images[handle_option.handle].sampler)
    ELSE TexSome(dummy_white_gpu_image.texture_view, dummy_white_gpu_image.sampler)

get_image_texture(images, handle_option) ==
    IF handle_option.tag = "Some"
    THEN IF handle_option.handle \in DOMAIN images
         THEN TexSome(images[handle_option.handle].texture_view, images[handle_option.handle].sampler)
         ELSE TexNone
    ELSE TexSome(dummy_white_gpu_image.texture_view, dummy_white_gpu_image.sampler)

TexIdle ==
    /\ gpu_images = <<>>
    /\ tex_in = NoHandle
    /\ tex_out = TexNotCalled

\* RenderAssets<Image>: an image finishes uploading.
PrepareImage ==
    \E h \in ImageHandles \ DOMAIN gpu_images :
        /\ tex_out = TexNotCalled
        /\ gpu_images' = [x \in DOMAIN gpu_images \cup {h} |-> GpuImage(x)]
        /\ UNCHANGED <<tex_in, tex_out>>
        /\ UNCHANGED <<keyVars, cacheVars, frameVars>>

\* RenderAssets<Image>: an image is unloaded.
RemoveImage ==
    \E h \in DOMAIN gpu_images :
        /\ tex_out = TexNotCalled
        /\ gpu_images' = [x \in DOMAIN gpu_images \ {h} |-> GpuImage(x)]
        /\ UNCHANGED <<tex_in, tex_out>>
        /\ UNCHANGED <<keyVars, cacheVars, frameVars>>

\* A material picks the optional texture handle it will look up.
ChooseHandle ==
    \E opt \in {NoHandle} \cup {SomeHandle(h) : h \in ImageHandles} :
        /\ tex_in' = opt
        /\ tex_out' = TexNotCalled
        /\ UNCHANGED gpu_images
        /\ UNCHANGED <<keyVars, cacheVars, frameVars>>

GetImageTexture ==
    /\ tex_out = TexNotCalled
    /\ tex_out' = get_image_texture(gpu_images, tex_in)
    /\ UNCHANGED <<gpu_images, tex_in>>
    /\ UNCHANGED <<keyVars, cacheVars, frameVars>>

NextTex == PrepareImage \/ RemoveImage \/ ChooseHandle \/ GetImageTexture

\* C8: get_image_texture is three-way: no handle gives the dummy white view
\* and sampler; a handle the registry resolves gives that image's view and
\* sampler; a handle it does not resolve gives None, never the dummy pair.
C8_TextureThreeWay ==
    tex_out # TexNotCalled =>
        /\ tex_in = NoHandle =>
              tex_out = TexSome(dummy_white_gpu_image.texture_view, dummy_white_gpu_image.sampler)
        /\ (tex_in.tag = "Some" /\ tex_in.handle \in DOMAIN gpu_images) =>
              tex_out = TexSome([of |-> "image", handle |-> tex_in.handle],
                                [of |-> "image", handle |-> tex_in.handle])
        /\ (tex_in.tag = "Some" /\ tex_in.handle \notin DOMAIN gpu_images) =>
              /\ tex_out = TexNone
              /\ tex_out # TexSome(dummy_white_gpu_image.texture_view, dummy_white_gpu_image.sampler)

C8_Witness ==
    /\ tex_in.tag = "Some"
    /\ tex_in.handle \notin DOMAIN gpu_images
    /\ gpu_images # <<>>
    /\ tex_out = TexNone

(***************************************************************************)
(* Mesh2dPipeline::specialize and the SpecializedPipelines cache           *)
(***************************************************************************)
VertexAttribute(format, offset, shader_location) ==
    [format |-> format, offset |-> offset, shader_location |-> shader_location]

\* A descriptor whose vertex layout follows the sample count.
specialize_layout_by_sample_count(b) ==
    LET tangents == msaa_samples(b) > 1
        vertex_array_stride == IF tangents THEN 48 ELSE 32
        vertex_attributes ==
            IF tangents
            THEN <<VertexAttribute("Float32x3", 12, 0), VertexAttribute("Float32x3", 0, 1),
                   VertexAttribute("Float32x2", 40, 2), VertexAttribute("Float32x4", 24, 3)>>
            ELSE <<VertexAttribute("Float32x3", 12, 0), VertexAttribute("Float32x3", 0, 1),
                   VertexAttribute("Float32x2", 24, 2)>>
        shader_defs == IF tangents THEN <<"VERTEX_TANGENTS">> ELSE <<>>
    IN  [vertex |-> [entry_point |-> "vertex", shader_defs |-> shader_defs,
                     array_stride |-> vertex_array_stride, attributes |-> vertex_attributes],
         fragment |-> [entry_point |-> "fragment", shader_defs |-> shader_defs,
                       blend |-> "ALPHA_BLENDING"],
         layout |-> <<"view_layout", "mesh_layout">>,
         primitive |-> [topology |-> primitive_topology(b), cull_mode |-> "Back"],
         multisample |-> [count |-> msaa_samples(b)],
         label |-> "transparent_mesh2d_pipeline"]

\* The RenderPipelineDescriptor built for key bits b.
specialize(b) ==
    LET tangents == contains(b, VERTEX_TANGENTS)
        vertex_array_stride == IF tangents THEN 48 ELSE 32
        vertex_attributes ==
            IF tangents
            THEN <<VertexAttribute("Float32x3", 12, 0), VertexAttribute("Float32x3", 0, 1),
                   VertexAttribute("Float32x2", 40, 2), VertexAttribute("Float32x4", 24, 3)>>
            ELSE <<VertexAttribute("Float32x3", 12, 0), VertexAttribute("Float32x3", 0, 1),
                   VertexAttribute("Float32x2", 24, 2)>>
        shader_defs == IF tangents THEN <<"VERTEX_TANGENTS">> ELSE <<>>
    IN  [vertex |-> [entry_point |-> "vertex", shader_defs |-> shader_defs,
                     array_stride |-> vertex_array_stride, attributes |-> vertex_attributes],
         fragment |-> [entry_point |-> "fragment", shader_defs |-> shader_defs,
                       blend |-> "ALPHA_BLENDING"],
         layout |-> <<"view_layout", "mesh_layout">>,
         primitive |-> [topology |-> primitive_topology(b), cull_mode |-> "Back"],
         multisample |-> [count |-> msaa_samples(b)],
         label |-> "transparent_mesh2d_pipeline"]

MaxRequests == 4
CacheSamples == {1, 4}

\* The keys the queue systems ask pipelines for.
CacheTopologies == {"TriangleList", "LineStrip"}
CacheKeys ==
    {EncodeKey(CHOOSE mk \in from_msaa_samples(n) : mk.tag = "key", t, f).bits :
        n \in CacheSamples, t \in CacheTopologies, f \in BOOLEAN}

\* init_resource::<SpecializedPipelines<Mesh2dPipeline>>(): an empty cache.
CacheIdle ==
    /\ cache = <<>>
    /\ pipelines = <<>>
    /\ specialize_calls = <<>>
    /\ served = <<>>

\* The cache after a request for key k: [cache, pipelines, calls, id].
SpecializedPipelines_specialize_uncached(c, ps, calls, k) ==
    [cache |-> [x \in DOMAIN c \cup {k} |-> IF x = k THEN Len(ps) + 1 ELSE c[x]],
     pipelines |-> Append(ps, specialize(k)),
     calls |-> Append(calls, k),
     id |-> Len(ps) + 1]

SpecializedPipelines_specialize(c, ps, calls, k) ==
    IF k \in DOMAIN c
    THEN [cache |-> c, pipelines |-> ps, calls |-> calls, id |-> c[k]]
    ELSE [cache |-> [x \in DOMAIN c \cup {k} |-> IF x = k THEN Len(ps) + 1 ELSE c[x]],
          pipelines |-> Append(ps, specialize(k)),
          calls |-> Append(calls, k),
          id |-> Len(ps) + 1]

RequestSpecialize ==
    \E k \in CacheKeys :
        /\ Len(served) < MaxRequests
        /\ LET r == SpecializedPipelines_specialize(cache, pipelines, specialize_calls, k)
           IN  /\ cache' = r.cache
               /\ pipelines' = r.pipelines
               /\ specialize_calls' = r.calls
               /\ served' = Append(served, [key |-> k, id |-> r.id])
        /\ UNCHANGED <<keyVars, texVars, frameVars>>

NextCache == RequestSpecialize

Count(seq, x) == Cardinality({i \in 1..Len(seq) : seq[i] = x})

C5_State ==
    /\ \A k \in CacheKeys :
          Count(specialize_calls, k) = IF \E i \in 1..Len(served) : served[i].key = k THEN 1 ELSE 0
    /\ \A i, j \in 1..Len(served) :
          served[i].key = served[j].key => served[i].id = served[j].id
    /\ \A i \in 1..Len(served) : pipelines[served[i].id] = specialize(served[i].key)

C5_AppendOnly ==
    /\ \A k \in DOMAIN cache : k \in DOMAIN cache' /\ cache'[k] = cache[k]
    /\ \A i \in 1..Len(pipelines) : i <= Len(pipelines') /\ pipelines'[i] = pipelines[i]

\* C5: over any sequence of requests the construction routine runs exactly
\* once for each distinct key requested, equal keys are served the identical
\* cached pipeline, and a cache entry is never removed or replaced.
C5_Memoized == []C5_State /\ [][C5_AppendOnly]_vars

C5_Witness ==
    /\ Len(served) = 3
    /\ served[1].key = served[3].key
    /\ served[1].key # served[2].key
    /\ served[1].id = served[3].id
    /\ Len(specialize_calls) = 2

(***************************************************************************)
(* The frame: simulation world, extraction, queuing and drawing            *)
(***************************************************************************)
NumEntities == 3
Entities == 1..NumEntities
NumHandles == 2
MeshHandles == 1..NumHandles

\* The Mesh2dHandle each entity was spawned with.
HandleOf(e) == ((e - 1) % NumHandles) + 1
\* A Handle<Mesh>: the id of the asset and whether the handle keeps it alive.
StrongHandle(id) == [id |-> id, strength |-> "Strong"]
\* Handle::clone_weak
clone_weak(h) == [id |-> h.id, strength |-> "Weak"]
\* The Mesh2dHandle component of entity e in the simulation world.
Mesh2dHandleOf(e) == StrongHandle(HandleOf(e))

\* GlobalTransform, reduced to one axis: a scale of 1 or -1 and a translation.
GlobalTransform(scale, translation) == [scale |-> scale, translation |-> translation]
Transforms == {GlobalTransform(1, 0), GlobalTransform(-1, 2)}

\* Matrices are homogeneous 2x2, row-major: <<m11, m12, m21, m22>>.
compute_matrix(gt) == <<gt.scale, gt.translation, 0, 1>>
MatDet(m) == m[1] * m[4] - m[2] * m[3]
\* The determinant is 1 or -1, so its reciprocal is the determinant itself.
MatInverse(m) == <<m[4] * MatDet(m), (0 - m[2]) * MatDet(m), (0 - m[3]) * MatDet(m), m[1] * MatDet(m)>>
MatTranspose(m) == <<m[1], m[3], m[2], m[4]>>

MeshFlags_empty == 0

Mesh2dUniform(transform) ==
    [transform |-> transform,
     inverse_transpose_model |-> MatTranspose(MatInverse(transform)),
     flags |-> MeshFlags_empty]

NoIndex == [tag |-> "None"]
SomeIndex(i) == [tag |-> "Some", index |-> i]
None == [tag |-> "None"]

\* Vec<T>: its items and its capacity.
VecWithCapacity(n) == [items |-> <<>>, capacity |-> n]
Max(a, b) == IF a >= b THEN a ELSE b
\* Vec::push: a full vector grows (amortised doubling) before the item is stored.
\* (old is the vector before the push, evaluated once.)
VecPush(v, x) ==
    CHOOSE pushed \in
        {[items |-> Append(old.items, x),
          capacity |-> IF Len(old.items) = old.capacity
                       THEN Max(Max(2 * old.capacity, Len(old.items) + 1), 4)
                       ELSE old.capacity] : old \in {v}} : TRUE
\* A push that stores the item only while there is spare capacity.
VecPushWithinCapacity(v, x) ==
    CHOOSE pushed \in
        {IF Len(old.items) = old.capacity THEN old ELSE [old EXCEPT !.items = Append(old.items, x)] :
            old \in {v}} : TRUE

\* What extract_mesh2d pushes for entity e.
ExtractedValue(w, e) ==
    [entity |-> e, handle |-> clone_weak(Mesh2dHandleOf(e)),
     uniform |-> Mesh2dUniform(compute_matrix(w[e].transform))]

\* An extracted value whose matrices are those of the default transform.
ExtractedValueStale(w, e) ==
    [entity |-> e, handle |-> clone_weak(Mesh2dHandleOf(e)),
     uniform |-> Mesh2dUniform(compute_matrix(GlobalTransform(1, 0)))]

\* The values vector of extract_mesh2d, the query iterating entities in id order.
RECURSIVE ExtractFromInverted(_, _, _)
ExtractFromInverted(w, e, vec) ==
    IF e > NumEntities THEN vec
    ELSE ExtractFromInverted(w, e + 1, IF w[e].is_visible THEN vec ELSE VecPush(vec, ExtractedValue(w, e)))

RECURSIVE ExtractFromUnchecked(_, _, _)
ExtractFromUnchecked(w, e, vec) ==
    IF e > NumEntities THEN vec
    ELSE ExtractFromUnchecked(w, e + 1, VecPush(vec, ExtractedValue(w, e)))

RECURSIVE ExtractFromWithinCapacity(_, _, _)
ExtractFromWithinCapacity(w, e, vec) ==
    IF e > NumEntities THEN vec
    ELSE ExtractFromWithinCapacity(w, e + 1,
            IF ~w[e].is_visible THEN vec ELSE VecPushWithinCapacity(vec, ExtractedValue(w, e)))

RECURSIVE ExtractFromStale(_, _, _)
ExtractFromStale(w, e, vec) ==
    IF e > NumEntities THEN vec
    ELSE ExtractFromStale(w, e + 1, IF ~w[e].is_visible THEN vec ELSE VecPush(vec, ExtractedValueStale(w, e)))

RECURSIVE ExtractFrom(_, _, _)
ExtractFrom(w, e, vec) ==
    IF e > NumEntities THEN vec
    ELSE ExtractFrom(w, e + 1, IF ~w[e].is_visible THEN vec ELSE VecPush(vec, ExtractedValue(w, e)))

extract_mesh2d_inverted_check(w, prev_len) == ExtractFromInverted(w, 1, VecWithCapacity(prev_len))

extract_mesh2d_no_visibility_check(w, prev_len) == ExtractFromUnchecked(w, 1, VecWithCapacity(prev_len))

extract_mesh2d_within_capacity(w, prev_len) == ExtractFromWithinCapacity(w, 1, VecWithCapacity(prev_len))

extract_mesh2d_stale_transform(w, prev_len) == ExtractFromStale(w, 1, VecWithCapacity(prev_len))

\* The values vector extract_mesh2d has built when its loop ends.
extract_mesh2d(w, prev_len) == ExtractFrom(w, 1, VecWithCapacity(prev_len))

\* Commands::insert_or_spawn_batch: the bundle replaces the entity's
\* Mesh2dHandle and Mesh2dUniform and leaves its other components alone.
insert_or_spawn_batch(r, batch) ==
    LET ents == {batch[i].entity : i \in 1..Len(batch)}
        valueOf(e) == batch[CHOOSE i \in 1..Len(batch) : batch[i].entity = e]
    IN  [e \in DOMAIN r \cup ents |->
            IF e \in ents
            THEN [handle |-> valueOf(e).handle,
                  uniform |-> valueOf(e).uniform,
                  index |-> IF e \in DOMAIN r THEN r[e].index ELSE NoIndex]
            ELSE r[e]]

\* The GpuMesh the registry holds for an uploaded mesh.
GpuMesh(h) ==
    IF h % 2 = 1
    THEN [vertex_buffer |-> h, buffer_info |-> [tag |-> "Indexed", buffer |-> h, index_format |-> "Uint32", count |-> 36]]
    ELSE [vertex_buffer |-> h, buffer_info |-> [tag |-> "NonIndexed", vertex_count |-> 3]]

\* The position of entity e among the aggregated records (extraction order).
UniformPosition(r, e) == Cardinality({x \in DOMAIN r : x < e})

RECURSIVE UniformsFrom(_, _)
UniformsFrom(r, e) ==
    IF e > NumEntities THEN <<>>
    ELSE (IF e \in DOMAIN r THEN <<r[e].uniform>> ELSE <<>>) \o UniformsFrom(r, e + 1)

\* The aggregated buffer: none when there is no record.
AggregateUniforms(r) == IF DOMAIN r = {} THEN None ELSE [tag |-> "Some", contents |-> UniformsFrom(r, 1)]

\* uniforms().binding(): the buffer binding when a buffer exists.
UniformBinding(buf) == IF buf = None THEN None ELSE [tag |-> "Some", buffer |-> buf.contents]

NumViews == 2
ViewIds == 1..NumViews
FramePeriod == 2

\* The views in the order the view uniforms are aggregated.
RECURSIVE ViewUniformsFrom(_, _)
ViewUniformsFrom(vs, v) ==
    IF v > NumViews THEN <<>>
    ELSE (IF v \in DOMAIN vs THEN <<[view |-> v]>> ELSE <<>>) \o ViewUniformsFrom(vs, v + 1)

\* The aggregated view uniform buffer: none when there is no view.
AggregateViewUniforms(vs) ==
    IF DOMAIN vs = {} THEN None ELSE [tag |-> "Some", contents |-> ViewUniformsFrom(vs, 1)]

\* The record of one call of RenderDevice::create_bind_group.
DeviceCall(label) == [call |-> "create_bind_group", label |-> label]

\* A device that hands out the same bind groups in every frame.
create_bind_group_same_instance(label, layout, binding, now, n) ==
    [tag |-> "Some", layout |-> layout, binding0 |-> binding, label |-> label, id |-> <<FramePeriod, n>>]

\* RenderDevice::create_bind_group: a new bind group, the n-th the device makes in frame now.
create_bind_group(label, layout, binding, now, n) ==
    [tag |-> "Some", layout |-> layout, binding0 |-> binding, label |-> label, id |-> <<now, n>>]

\* queue_mesh2d_bind_group: [group, calls] from the resource as it was.
queue_mesh2d_bind_group_unconditional(group, calls, binding, now) ==
    [group |-> create_bind_group("mesh2d_bind_group", "mesh_layout", binding, now, Len(calls) + 1),
     calls |-> Append(calls, DeviceCall("mesh2d_bind_group"))]

\* A queue system that leaves the resource as it finds it.
queue_mesh2d_bind_group_never_builds(group, calls, binding, now) ==
    [group |-> group, calls |-> calls]

queue_mesh2d_bind_group(group, calls, binding, now) ==
    IF binding.tag = "Some"
    THEN [group |-> create_bind_group("mesh2d_bind_group", "mesh_layout", binding, now, Len(calls) + 1),
          calls |-> Append(calls, DeviceCall("mesh2d_bind_group"))]
    ELSE [group |-> group, calls |-> calls]

\* queue_mesh2d_view_bind_groups: [views, calls], the views iterated in id order.
queue_mesh2d_view_bind_groups_first_only(vs, calls, view_binding, now) ==
    IF view_binding.tag = "Some" /\ DOMAIN vs # {}
    THEN LET first == CHOOSE v \in DOMAIN vs : \A x \in DOMAIN vs : v <= x
         IN  [views |-> [v \in DOMAIN vs |->
                            IF v = first
                            THEN [vs[v] EXCEPT !.bind_group =
                                    create_bind_group("mesh2d_view_bind_group", "view_layout", view_binding,
                                                      now, Len(calls) + 1)]
                            ELSE vs[v]],
              calls |-> Append(calls, DeviceCall("mesh2d_view_bind_group"))]
    ELSE [views |-> vs, calls |-> calls]

queue_mesh2d_view_bind_groups(vs, calls, view_binding, now) ==
    IF view_binding.tag = "Some"
    THEN [views |-> [v \in DOMAIN vs |->
                        [vs[v] EXCEPT !.bind_group =
                            create_bind_group("mesh2d_view_bind_group", "view_layout", view_binding, now,
                                              Len(calls) + Cardinality({x \in DOMAIN vs : x <= v}))]],
          calls |-> calls \o [k \in 1..Cardinality(DOMAIN vs) |-> DeviceCall("mesh2d_view_bind_group")]]
    ELSE [views |-> vs, calls |-> calls]

\* One draw item for each extracted mesh entity, in entity order.
RECURSIVE ItemsFrom(_, _)
ItemsFrom(r, e) ==
    IF e > NumEntities THEN <<>>
    ELSE (IF e \in DOMAIN r THEN <<e>> ELSE <<>>) \o ItemsFrom(r, e + 1)

CommandResult(cmds, result) == [cmds |-> cmds, result |-> result]

\* SetMesh2dViewBindGroup<I>::render
SetMesh2dViewBindGroup_render(I, v, vs) ==
    IF v \notin DOMAIN vs \/ vs[v].offset.tag = "None" \/ vs[v].bind_group.tag = "None"
    THEN CommandResult(<<>>, "Panic")
    ELSE CommandResult(<<[op |-> "set_bind_group", index |-> I, group |-> vs[v].bind_group,
                          offsets |-> <<vs[v].offset.index>>]>>, "Success")

\* SetMesh2dBindGroup<I>::render
SetMesh2dBindGroup_render_first_index(I, item, group, r) ==
    IF group.tag = "None" \/ item \notin DOMAIN r \/ r[item].index.tag = "None"
    THEN CommandResult(<<>>, "Panic")
    ELSE CommandResult(<<[op |-> "set_bind_group", index |-> I, group |-> group,
                          offsets |-> <<0>>]>>, "Success")

SetMesh2dBindGroup_render(I, item, group, r) ==
    IF group.tag = "None" \/ item \notin DOMAIN r \/ r[item].index.tag = "None"
    THEN CommandResult(<<>>, "Panic")
    ELSE CommandResult(<<[op |-> "set_bind_group", index |-> I, group |-> group,
                          offsets |-> <<r[item].index.index>>]>>, "Success")

\* DrawMesh2d::render
DrawMesh2d_render_success_on_missing(item, meshes, r) ==
    IF item \notin DOMAIN r
    THEN CommandResult(<<>>, "Panic")
    ELSE LET mesh_handle == r[item].handle
         IN  IF mesh_handle.id \in DOMAIN meshes
             THEN LET gpu_mesh == meshes[mesh_handle.id]
                      bind == <<[op |-> "set_vertex_buffer", slot |-> 0, buffer |-> gpu_mesh.vertex_buffer]>>
                  IN  IF gpu_mesh.buffer_info.tag = "Indexed"
                      THEN CommandResult(bind \o
                             <<[op |-> "set_index_buffer", buffer |-> gpu_mesh.buffer_info.buffer, offset |-> 0,
                                index_format |-> gpu_mesh.buffer_info.index_format],
                               [op |-> "draw_indexed", indices |-> <<0, gpu_mesh.buffer_info.count>>,
                                base_vertex |-> 0, instances |-> <<0, 1>>]>>, "Success")
                      ELSE CommandResult(bind \o
                             <<[op |-> "draw", vertices |-> <<0, gpu_mesh.buffer_info.vertex_count>>,
                                instances |-> <<0, 1>>]>>, "Success")
             ELSE CommandResult(<<>>, "Success")

\* A DrawMesh2d that gives up on every item.
DrawMesh2d_render_never_succeeds(item, meshes, r) ==
    IF item \notin DOMAIN r THEN CommandResult(<<>>, "Panic") ELSE CommandResult(<<>>, "Failure")

\* A DrawMesh2d that draws every mesh as non-indexed.
DrawMesh2d_render_never_indexed(item, meshes, r) ==
    IF item \notin DOMAIN r
    THEN CommandResult(<<>>, "Panic")
    ELSE LET mesh_handle == r[item].handle
         IN  IF mesh_handle.id \in DOMAIN meshes
             THEN LET gpu_mesh == meshes[mesh_handle.id]
                      bind == <<[op |-> "set_vertex_buffer", slot |-> 0, buffer |-> gpu_mesh.vertex_buffer]>>
                  IN  IF gpu_mesh.buffer_info.tag = "Indexed"
                      THEN CommandResult(bind \o
                             <<[op |-> "draw", vertices |-> <<0, gpu_mesh.buffer_info.count>>,
                                instances |-> <<0, 1>>]>>, "Success")
                      ELSE CommandResult(bind \o
                             <<[op |-> "draw", vertices |-> <<0, gpu_mesh.buffer_info.vertex_count>>,
                                instances |-> <<0, 1>>]>>, "Success")
             ELSE CommandResult(<<>>, "Failure")

DrawMesh2d_render(item, meshes, r) ==
    IF item \notin DOMAIN r
    THEN CommandResult(<<>>, "Panic")
    ELSE LET mesh_handle == r[item].handle
         IN  IF mesh_handle.id \in DOMAIN meshes
             THEN LET gpu_mesh == meshes[mesh_handle.id]
                      bind == <<[op |-> "set_vertex_buffer", slot |-> 0, buffer |-> gpu_mesh.vertex_buffer]>>
                  IN  IF gpu_mesh.buffer_info.tag = "Indexed"
                      THEN CommandResult(bind \o
                             <<[op |-> "set_index_buffer", buffer |-> gpu_mesh.buffer_info.buffer, offset |-> 0,
                                index_format |-> gpu_mesh.buffer_info.index_format],
                               [op |-> "draw_indexed", indices |-> <<0, gpu_mesh.buffer_info.count>>,
                                base_vertex |-> 0, instances |-> <<0, 1>>]>>, "Success")
                      ELSE CommandResult(bind \o
                             <<[op |-> "draw", vertices |-> <<0, gpu_mesh.buffer_info.vertex_count>>,
                                instances |-> <<0, 1>>]>>, "Success")
             ELSE CommandResult(<<>>, "Failure")

\* Each command is recorded with the render command that issued it.
By(cmds, command) == [i \in 1..Len(cmds) |-> [by |-> command] @@ cmds[i]]

\* The commands of one draw item with the mesh bind group bound before the view's.
RunItem_mesh_first(v, item, vs, group, meshes, r) ==
    LET bindView == SetMesh2dViewBindGroup_render(0, v, vs)
        bindMesh == SetMesh2dBindGroup_render(1, item, group, r)
        draw == DrawMesh2d_render(item, meshes, r)
    IN  IF bindMesh.result # "Success"
        THEN CommandResult(By(bindMesh.cmds, "SetMesh2dBindGroup"), bindMesh.result)
        ELSE IF bindView.result # "Success"
        THEN CommandResult(By(bindMesh.cmds, "SetMesh2dBindGroup") \o By(bindView.cmds, "SetMesh2dViewBindGroup"),
                           bindView.result)
        ELSE CommandResult(By(bindMesh.cmds, "SetMesh2dBindGroup") \o By(bindView.cmds, "SetMesh2dViewBindGroup")
                             \o By(draw.cmds, "DrawMesh2d"),
                           draw.result)

\* The commands of one draw item run in order and stop at the first one
\* that does not succeed; the item's result is that command's result.
RunItem(v, item, vs, group, meshes, r) ==
    LET bindView == SetMesh2dViewBindGroup_render(0, v, vs)
        bindMesh == SetMesh2dBindGroup_render(1, item, group, r)
        draw == DrawMesh2d_render(item, meshes, r)
    IN  IF bindView.result # "Success"
        THEN CommandResult(By(bindView.cmds, "SetMesh2dViewBindGroup"), bindView.result)
        ELSE IF bindMesh.result # "Success"
        THEN CommandResult(By(bindView.cmds, "SetMesh2dViewBindGroup") \o By(bindMesh.cmds, "SetMesh2dBindGroup"),
                           bindMesh.result)
        ELSE CommandResult(By(bindView.cmds, "SetMesh2dViewBindGroup") \o By(bindMesh.cmds, "SetMesh2dBindGroup")
                             \o By(draw.cmds, "DrawMesh2d"),
                           draw.result)

\* Each recorded command is tagged with the draw item it was recorded for.
Tagged(cmds, item) == [i \in 1..Len(cmds) |-> [item |-> item] @@ cmds[i]]

NoView == [tag |-> "None"]
SomeView(v) == [tag |-> "Some", entity |-> v]
QueueSystems == {"queue_mesh2d_bind_group", "queue_mesh2d_view_bind_groups", "queue_items"}

FrameIdle ==
    /\ pc = "sim"
    /\ frame = 1
    /\ queue_done = {}
    /\ world = [e \in Entities |-> [is_visible |-> TRUE, transform |-> GlobalTransform(1, 0)]]
    /\ cameras = {1}
    /\ views = <<>>
    /\ view_uniforms = None
    /\ rendered_view = NoView
    /\ values = VecWithCapacity(0)
    /\ visited = {}
    /\ previous_len = 0
    /\ render = <<>>
    /\ prev_records = {}
    /\ uniform_buffer = None
    /\ mesh_bind_group = None
    /\ device_calls = <<>>
    /\ gpu_meshes = <<>>
    /\ phase = <<>>
    /\ pass = <<>>
    /\ outcomes = <<>>

\* The simulation changes the ComputedVisibility of entity e between frames.
ToggleVisibility(e) ==
    /\ pc = "sim"
    /\ world' = [world EXCEPT ![e].is_visible = ~world[e].is_visible]
    /\ UNCHANGED <<pc, frame, queue_done, cameras, views, view_uniforms, rendered_view, values, visited,
                   previous_len, render, prev_records, uniform_buffer, mesh_bind_group,
                   device_calls, gpu_meshes, phase, pass, outcomes>>
    /\ UNCHANGED <<keyVars, texVars, cacheVars>>

SetVisibility == \E e \in Entities : ToggleVisibility(e)

\* The entities that are shown and hidden while the others stay visible.
Flickering == {e \in Entities : HandleOf(e) = HandleOf(NumEntities)}
SetVisibilityOfFlickering == \E e \in Flickering : ToggleVisibility(e)

\* The simulation changes an entity's GlobalTransform between frames.
SetTransform ==
    \E e \in Entities, t \in Transforms :
        /\ pc = "sim"
        /\ t # world[e].transform
        /\ world' = [world EXCEPT ![e].transform = t]
        /\ UNCHANGED <<pc, frame, queue_done, cameras, views, view_uniforms, rendered_view, values, visited,
                       previous_len, render, prev_records, uniform_buffer, mesh_bind_group,
                       device_calls, gpu_meshes, phase, pass, outcomes>>
        /\ UNCHANGED <<keyVars, texVars, cacheVars>>

\* The simulation activates or deactivates a camera, one camera staying active.
SetCamera ==
    \E c \in ViewIds :
        /\ pc = "sim"
        /\ cameras' = IF c \in cameras THEN cameras \ {c} ELSE cameras \cup {c}
        /\ cameras' # {}
        /\ UNCHANGED <<pc, frame, queue_done, world, views, view_uniforms, rendered_view, values, visited,
                       previous_len, render, prev_records, uniform_buffer, mesh_bind_group,
                       device_calls, gpu_meshes, phase, pass, outcomes>>
        /\ UNCHANGED <<keyVars, texVars, cacheVars>>

\* The simulation deactivates the only active camera.
DeactivateLastCamera ==
    /\ pc = "sim"
    /\ Cardinality(cameras) = 1
    /\ cameras' = {}
    /\ UNCHANGED <<pc, frame, queue_done, world, views, view_uniforms, rendered_view, values, visited,
                   previous_len, render, prev_records, uniform_buffer, mesh_bind_group,
                   device_calls, gpu_meshes, phase, pass, outcomes>>
    /\ UNCHANGED <<keyVars, texVars, cacheVars>>

\* RenderStage::Extract: extract_mesh2d, its commands applied at the end of the stage.
Extract ==
    /\ pc = "sim"
    /\ LET vec == extract_mesh2d(world, previous_len)
       IN  /\ previous_len' = Len(vec.items)
           /\ render' = insert_or_spawn_batch(render, vec.items)
    /\ frame' = (frame % FramePeriod) + 1
    /\ pc' = "extract_views"
    /\ UNCHANGED <<queue_done, world, cameras, views, view_uniforms, rendered_view, values, visited,
                   prev_records, uniform_buffer, mesh_bind_group, device_calls, gpu_meshes,
                   phase, pass, outcomes>>
    /\ UNCHANGED <<keyVars, texVars, cacheVars>>

\* RenderStage::Extract: each active camera becomes a view entity of the render world.
ExtractViews ==
    /\ pc = "extract_views"
    /\ views' = [v \in cameras |-> [offset |-> NoIndex, bind_group |-> None]]
    /\ pc' = "prepare"
    /\ UNCHANGED <<frame, queue_done, world, cameras, view_uniforms, rendered_view, values, visited,
                   previous_len, render, prev_records, uniform_buffer, mesh_bind_group, device_calls,
                   gpu_meshes, phase, pass, outcomes>>
    /\ UNCHANGED <<keyVars, texVars, cacheVars>>

\* RenderStage::Prepare: the mesh registry is brought up to date and the
\* object and view uniforms are aggregated, each record getting its dynamic index.
Prepare ==
    /\ pc = "prepare"
    /\ \E resolved \in SUBSET MeshHandles :
          gpu_meshes' = [h \in resolved |-> GpuMesh(h)]
    /\ render' = [e \in DOMAIN render |-> [render[e] EXCEPT !.index = SomeIndex(UniformPosition(render, e))]]
    /\ uniform_buffer' = AggregateUniforms(render)
    /\ views' = [v \in DOMAIN views |-> [views[v] EXCEPT !.offset = SomeIndex(UniformPosition(views, v))]]
    /\ view_uniforms' = AggregateViewUniforms(views)
    /\ pc' = "queue"
    /\ UNCHANGED <<frame, queue_done, world, cameras, rendered_view, values, visited,
                   previous_len, prev_records, mesh_bind_group, device_calls, phase, pass, outcomes>>
    /\ UNCHANGED <<keyVars, texVars, cacheVars>>

\* The stage ends when each of its systems has run.
AfterQueue(system) == IF queue_done \cup {system} = QueueSystems THEN "draw" ELSE "queue"

\* RenderStage::Queue: queue_mesh2d_bind_group.
QueueMesh2dBindGroup ==
    /\ pc = "queue"
    /\ "queue_mesh2d_bind_group" \notin queue_done
    /\ LET q == queue_mesh2d_bind_group(mesh_bind_group, device_calls, UniformBinding(uniform_buffer), frame)
       IN  /\ mesh_bind_group' = q.group
           /\ device_calls' = q.calls
    /\ queue_done' = queue_done \cup {"queue_mesh2d_bind_group"}
    /\ pc' = AfterQueue("queue_mesh2d_bind_group")
    /\ UNCHANGED <<frame, world, cameras, views, view_uniforms, rendered_view, values, visited,
                   previous_len, render, prev_records, uniform_buffer, gpu_meshes, phase, pass, outcomes>>
    /\ UNCHANGED <<keyVars, texVars, cacheVars>>

\* RenderStage::Queue: queue_mesh2d_view_bind_groups.
QueueMesh2dViewBindGroups ==
    /\ pc = "queue"
    /\ "queue_mesh2d_view_bind_groups" \notin queue_done
    /\ LET q == queue_mesh2d_view_bind_groups(views, device_calls, UniformBinding(view_uniforms), frame)
       IN  /\ views' = q.views
           /\ device_calls' = q.calls
    /\ queue_done' = queue_done \cup {"queue_mesh2d_view_bind_groups"}
    /\ pc' = AfterQueue("queue_mesh2d_view_bind_groups")
    /\ UNCHANGED <<frame, world, cameras, view_uniforms, rendered_view, values, visited,
                   previous_len, render, prev_records, uniform_buffer, mesh_bind_group, gpu_meshes,
                   phase, pass, outcomes>>
    /\ UNCHANGED <<keyVars, texVars, cacheVars>>

\* RenderStage::Queue: the material system queues, into the render phase of the
\* view to be drawn, one draw item per extracted mesh entity.
QueueItems ==
    /\ pc = "queue"
    /\ "queue_items" \notin queue_done
    /\ IF DOMAIN views = {}
       THEN /\ rendered_view' = NoView
            /\ phase' = <<>>
       ELSE /\ \E v \in DOMAIN views : rendered_view' = SomeView(v)
            /\ phase' = ItemsFrom(render, 1)
    /\ queue_done' = queue_done \cup {"queue_items"}
    /\ pc' = AfterQueue("queue_items")
    /\ UNCHANGED <<frame, world, cameras, views, view_uniforms, values, visited,
                   previous_len, render, prev_records, uniform_buffer, mesh_bind_group,
                   device_calls, gpu_meshes, pass, outcomes>>
    /\ UNCHANGED <<keyVars, texVars, cacheVars>>

\* The render phase processes its next draw item.
DrawItem ==
    /\ pc = "draw"
    /\ Len(outcomes) < Len(phase)
    /\ LET item == phase[Len(outcomes) + 1]
           run == RunItem(rendered_view.entity, item, views, mesh_bind_group, gpu_meshes, render)
       IN  /\ pass' = pass \o Tagged(run.cmds, item)
           /\ outcomes' = Append(outcomes, [item |-> item, result |-> run.result])
           /\ pc' = IF run.result = "Panic" THEN "panicked" ELSE "draw"
    /\ UNCHANGED <<frame, queue_done, world, cameras, views, view_uniforms, rendered_view, values, visited,
                   previous_len, render, prev_records, uniform_buffer, mesh_bind_group,
                   device_calls, gpu_meshes, phase>>
    /\ UNCHANGED <<keyVars, texVars, cacheVars>>

\* The render phase has processed every draw item.
FinishDraw ==
    /\ pc = "draw"
    /\ Len(outcomes) = Len(phase)
    /\ pc' = "cleanup"
    /\ UNCHANGED <<frame, queue_done, world, cameras, views, view_uniforms, rendered_view, values, visited,
                   previous_len, render, prev_records, uniform_buffer, mesh_bind_group,
                   device_calls, gpu_meshes, phase, pass, outcomes>>
    /\ UNCHANGED <<keyVars, texVars, cacheVars>>

\* End of frame: the render world's entities are cleared and the frame's
\* bind groups, aggregated buffers, draw items and recorded commands are dropped.
Cleanup ==
    /\ pc = "cleanup"
    /\ prev_records' = DOMAIN render
    /\ render' = <<>>
    /\ views' = <<>>
    /\ uniform_buffer' = None
    /\ view_uniforms' = None
    /\ mesh_bind_group' = None
    /\ rendered_view' = NoView
    /\ queue_done' = {}
    /\ device_calls' = <<>>
    /\ phase' = <<>>
    /\ pass' = <<>>
    /\ outcomes' = <<>>
    /\ pc' = "sim"
    /\ UNCHANGED <<frame, world, cameras, values, visited, previous_len, gpu_meshes>>
    /\ UNCHANGED <<keyVars, texVars, cacheVars>>

\* The frame's systems, stage after stage.
FrameStep ==
    \/ Extract
    \/ ExtractViews
    \/ Prepare
    \/ QueueMesh2dBindGroup
    \/ QueueMesh2dViewBindGroups
    \/ QueueItems
    \/ DrawItem
    \/ FinishDraw
    \/ Cleanup

Next ==
    \/ SetVisibility
    \/ Extract
    \/ ExtractViews
    \/ Prepare
    \/ QueueMesh2dBindGroup
    \/ QueueMesh2dViewBindGroups
    \/ QueueItems
    \/ DrawItem
    \/ FinishDraw
    \/ Cleanup

\* The pipelines specialize has built, each with the key it was built for.
Specialized == {[key |-> specialize_calls[i], pipeline |-> pipelines[i]] : i \in 1..Len(pipelines)}

\* C19: the descriptor specialize builds depends on the key alone: stride 48,
\* 4 attributes and the VERTEX_TANGENTS define with the flag, stride 32, 3
\* attributes and no define without it, whatever the sample count and the
\* topology; the multisample count is key.msaa_samples() and the topology is
\* key.primitive_topology(); the same key gives the same descriptor again.
C19_SpecializeByKeyAlone ==
    /\ \A s \in Specialized :
          LET flag == contains(s.key, VERTEX_TANGENTS)
              vertex == s.pipeline.vertex
          IN  /\ flag =>
                    /\ vertex.array_stride = 48
                    /\ Len(vertex.attributes) = 4
                    /\ vertex.shader_defs = <<"VERTEX_TANGENTS">>
              /\ ~flag =>
                    /\ vertex.array_stride = 32
                    /\ Len(vertex.attributes) = 3
                    /\ vertex.shader_defs = <<>>
              /\ s.pipeline.multisample.count = msaa_samples(s.key)
              /\ s.pipeline.multisample.count \in CacheSamples
              /\ s.pipeline.primitive.topology = primitive_topology(s.key)
              /\ s.pipeline.primitive.topology \in CacheTopologies
              /\ s.pipeline = specialize(s.key)
    /\ \A s1, s2 \in Specialized :
          /\ contains(s1.key, VERTEX_TANGENTS) = contains(s2.key, VERTEX_TANGENTS)
                => s1.pipeline.vertex = s2.pipeline.vertex
          /\ s1.key = s2.key => s1.pipeline = s2.pipeline

C19_Witness ==
    \E s1, s2, s3 \in Specialized :
        /\ contains(s1.key, VERTEX_TANGENTS)
        /\ contains(s2.key, VERTEX_TANGENTS)
        /\ s1.pipeline.multisample.count # s2.pipeline.multisample.count
        /\ s1.pipeline.primitive.topology # s2.pipeline.primitive.topology
        /\ ~contains(s3.key, VERTEX_TANGENTS)
        /\ s3.pipeline.vertex.array_stride = 32

(***************************************************************************)
(* Properties of the pipeline key (checked under SpecKey).                 *)
(***************************************************************************)
LegalBuilt == key_in.tag = "built" /\ key_in.msaa_samples \in LegalSamples

\* C1: for every sample count in 1..64, each of the 5 topologies and either
\* value of the tangents flag, the key built by OR-ing the three encoders is
\* a key (no panic) and decodes to exactly the values it was built from.
C1_RoundTrip ==
    (LegalBuilt /\ key # NoKey) =>
        /\ key.tag = "key"
        /\ key_out.tag = "decoded" =>
              /\ key_out.msaa_samples = key_in.msaa_samples
              /\ key_out.primitive_topology = key_in.topology
              /\ key_out.tangents = key_in.tangents

C1_Witness ==
    /\ key_in.tag = "built"
    /\ key_in.msaa_samples = 64
    /\ key_in.topology = "TriangleStrip"
    /\ key_in.tangents
    /\ key_out.tag = "decoded"
    /\ key_out.msaa_samples = 64
    /\ key_out.primitive_topology = "TriangleStrip"
    /\ key_out.tangents

\* C2: building a key from a sample count outside 1..64 fails: the encoder
\* never hands back a key for such an input (and so never one that decodes
\* to another, legal sample count).
C2_OutOfRangeFails ==
    (key_in.tag = "built" /\ key_in.msaa_samples \notin LegalSamples /\ key # NoKey) =>
        key.tag = "panic"

\* C3: primitive_topology() is total: on every key value it yields one of the
\* 5 defined topologies, and TriangleList when bits 23..25 hold 5, 6 or 7.
C3_TopologyTotal ==
    (key.tag = "key" /\ key_out.tag = "decoded") =>
        /\ key_out.primitive_topology \in Topologies
        /\ (key_in.tag = "raw" /\ key_in.ordinal \in 5..7) =>
              key_out.primitive_topology = "TriangleList"

C3_Witness ==
    /\ key_in.tag = "raw"
    /\ key_in.ordinal = 7
    /\ key_in.junk # 0
    /\ key_out.tag = "decoded"
    /\ key_out.primitive_topology = "TriangleList"

BitsIn(lo, hi) == [i \in BitIdx |-> IF lo <= i /\ i <= hi THEN 1 ELSE 0]
Inside(b, region) == BitAnd(b, BitNot(region)) = U32Zero

\* C4: the flag lives in bit 0 only, the topology ordinal in bits 23..25 only
\* and sampleCount-1 in bits 26..31 only; the regions are pairwise disjoint,
\* each encoder writes inside its own region, the assembled key lies inside
\* the declared bit set, and changing one field of the input leaves the
\* decoded values of the other fields as they are.
C4_BitLayout ==
    (key_in.tag = "built" /\ key.tag = "key") =>
        LET n == key_in.msaa_samples
            t == key_in.topology
            f == key_in.tangents
            tk == from_primitive_topology(t)
        IN  /\ VERTEX_TANGENTS = BitsIn(0, 0)
            /\ PRIMITIVE_TOPOLOGY_RESERVED_BITS = BitsIn(23, 25)
            /\ MSAA_RESERVED_BITS = BitsIn(26, 31)
            /\ BitAnd(VERTEX_TANGENTS, PRIMITIVE_TOPOLOGY_RESERVED_BITS) = U32Zero
            /\ BitAnd(VERTEX_TANGENTS, MSAA_RESERVED_BITS) = U32Zero
            /\ BitAnd(PRIMITIVE_TOPOLOGY_RESERVED_BITS, MSAA_RESERVED_BITS) = U32Zero
            /\ \A mk \in from_msaa_samples(n) :
                  mk.tag = "key" =>
                      /\ Inside(mk.bits, MSAA_RESERVED_BITS)
                      /\ n \in LegalSamples => ToNat(Shr(mk.bits, 26)) = n - 1
            /\ tk.tag = "key"
            /\ Inside(tk.bits, PRIMITIVE_TOPOLOGY_RESERVED_BITS)
            /\ ToNat(Shr(tk.bits, 23)) = TopologyOrdinal(t)
            /\ Inside(key.bits, KeyAll)
            /\ from_bits_unwrap(key.bits) = key
            /\ \A n2 \in LegalSamples :
                  LET k2 == EncodeKey(CHOOSE mk \in from_msaa_samples(n2) : mk.tag = "key", t, f)
                  IN  /\ primitive_topology(k2.bits) = primitive_topology(key.bits)
                      /\ contains(k2.bits, VERTEX_TANGENTS) = contains(key.bits, VERTEX_TANGENTS)
            /\ \A t2 \in Topologies :
                  \A mk \in from_msaa_samples(n) :
                      mk.tag = "key" =>
                          LET k2 == EncodeKey(mk, t2, f)
                          IN  /\ msaa_samples(k2.bits) = msaa_samples(EncodeKey(mk, t, f).bits)
                              /\ contains(k2.bits, VERTEX_TANGENTS) = contains(key.bits, VERTEX_TANGENTS)
            /\ \A f2 \in BOOLEAN :
                  \A mk \in from_msaa_samples(n) :
                      mk.tag = "key" =>
                          LET k2 == EncodeKey(mk, t, f2)
                          IN  /\ msaa_samples(k2.bits) = msaa_samples(EncodeKey(mk, t, f).bits)
                              /\ primitive_topology(k2.bits) = primitive_topology(key.bits)

C4_Witness ==
    /\ key_in.tag = "built"
    /\ key_in.msaa_samples = 64
    /\ key_in.topology = "TriangleStrip"
    /\ key_in.tangents
    /\ key.tag = "key"
    /\ key.bits = BitOr(BitsIn(0, 0), BitOr(BitsIn(25, 25), BitsIn(26, 31)))

(***************************************************************************)
(* Properties of the frame (checked under Spec).                           *)
(***************************************************************************)
\* The stages that follow extraction within a frame; the simulation world
\* does not change during them, so world is the world that was extracted.
Extracted == pc \in {"extract_views", "prepare", "queue", "draw", "cleanup"}
\* The device calls of this frame that created a bind group with the label.
CallsFor(label) == {i \in 1..Len(device_calls) : device_calls[i].label = label}
\* queue_mesh2d_bind_group has run in this frame.
MeshGroupQueued == pc \in {"draw", "cleanup"} \/ (pc = "queue" /\ "queue_mesh2d_bind_group" \in queue_done)
DrawCalls(e) == {i \in 1..Len(pass) : pass[i].item = e /\ pass[i].op \in {"draw", "draw_indexed"}}
GeometryCommands(e) ==
    {i \in 1..Len(pass) : pass[i].item = e
                          /\ pass[i].op \in {"set_vertex_buffer", "set_index_buffer", "draw", "draw_indexed"}}
OutcomesOf(e) == {i \in 1..Len(outcomes) : outcomes[i].item = e}
Resolves(e) == HandleOf(e) \in DOMAIN gpu_meshes

\* C6: in every frame an entity that is not visible at extraction has no
\* record in the render world for that frame, whether or not it had one in
\* an earlier frame.
C6_InvisibleNotExtracted ==
    Extracted => \A e \in Entities : ~world[e].is_visible => e \notin DOMAIN render

C6_Witness ==
    /\ pc = "prepare"
    /\ \E e \in Entities :
          /\ ~world[e].is_visible
          /\ e \in prev_records
          /\ e \notin DOMAIN render
    /\ DOMAIN render # {}

\* C7: in a frame with no object-uniform record there is no aggregated
\* buffer binding, queue_mesh2d_bind_group creates no bind group, calls the
\* device not at all and does not fail, and no mesh bind group (not even an
\* earlier frame's) is there in that frame.
C7_EmptyFrameNoBindGroup ==
    (MeshGroupQueued /\ DOMAIN render = {}) =>
        /\ UniformBinding(uniform_buffer) = None
        /\ mesh_bind_group = None
        /\ CallsFor("mesh2d_bind_group") = {}
        /\ pc # "panicked"

C7_Witness ==
    /\ pc = "queue"
    /\ "queue_mesh2d_bind_group" \in queue_done
    /\ DOMAIN render = {}
    /\ prev_records # {}
    /\ mesh_bind_group = None

\* C9: a draw item whose mesh does not resolve gets Failure and no vertex
\* buffer bind, index buffer bind or draw call; every item of the sequence is
\* still processed, each with the result its own mesh lookup gives.
C9_FailureIsolated ==
    /\ pc \in {"draw", "cleanup"} =>
          \A i \in 1..Len(outcomes) :
              LET e == phase[i]
              IN  /\ outcomes[i].item = e
                  /\ outcomes[i].result = IF render[e].handle.id \in DOMAIN gpu_meshes THEN "Success" ELSE "Failure"
                  /\ render[e].handle.id \notin DOMAIN gpu_meshes => GeometryCommands(e) = {}
                  /\ render[e].handle.id \in DOMAIN gpu_meshes => Cardinality(DrawCalls(e)) = 1
    /\ pc = "cleanup" => Len(outcomes) = Len(phase)
    /\ pc # "panicked"

C9_Witness ==
    /\ pc = "cleanup"
    /\ Len(phase) >= 3
    /\ outcomes[1].result = "Success"
    /\ outcomes[2].result = "Failure"
    /\ outcomes[3].result = "Success"
    /\ GeometryCommands(phase[2]) = {}
    /\ DrawCalls(phase[3]) # {}

\* C10: when the frame's draw sequence is complete it holds exactly one
\* successful draw call for each visible entity whose mesh resolves, exactly
\* one Failure and no draw call for each visible entity whose mesh does not,
\* and nothing at all for an entity that is not visible.
C10_FrameOutcome ==
    pc = "cleanup" =>
        \A e \in Entities :
            /\ (world[e].is_visible /\ Resolves(e)) =>
                  /\ Cardinality(DrawCalls(e)) = 1
                  /\ Cardinality(OutcomesOf(e)) = 1
                  /\ \A i \in OutcomesOf(e) : outcomes[i].result = "Success"
            /\ (world[e].is_visible /\ ~Resolves(e)) =>
                  /\ DrawCalls(e) = {}
                  /\ Cardinality(OutcomesOf(e)) = 1
                  /\ \A i \in OutcomesOf(e) : outcomes[i].result = "Failure"
            /\ ~world[e].is_visible =>
                  /\ OutcomesOf(e) = {}
                  /\ \A i \in 1..Len(pass) : pass[i].item # e
                  /\ \A i \in 1..Len(phase) : phase[i] # e

\* A visible and indexed (36 indices), B visible and unresolvable, C invisible.
C10_Witness ==
    /\ pc = "cleanup"
    /\ world[1].is_visible /\ world[2].is_visible /\ ~world[3].is_visible
    /\ DOMAIN gpu_meshes = {HandleOf(1)}
    /\ outcomes = <<[item |-> 1, result |-> "Success"], [item |-> 2, result |-> "Failure"]>>
    /\ \E i \in 1..Len(pass) :
          /\ pass[i].item = 1
          /\ pass[i].op = "draw_indexed"
          /\ pass[i].indices = <<0, 36>>
          /\ pass[i].instances = <<0, 1>>
    /\ Cardinality(DrawCalls(1)) = 1
    /\ DrawCalls(2) = {}

\* The positions of the pass that hold a command of render command cmd for item e.
Issued(e, command) == {i \in 1..Len(pass) : pass[i].item = e /\ pass[i].by = command}
IsDrawCall(c) == c.op \in {"draw", "draw_indexed"}

\* C11: in the recorded commands every draw call of an item comes after the
\* mesh bind-group bind of that item, which comes after the view bind-group
\* bind of that item; no mesh bind of an item precedes its view bind.
C11_CommandOrder ==
    /\ \A j \in 1..Len(pass) :
          IsDrawCall(pass[j]) =>
              \E i \in Issued(pass[j].item, "SetMesh2dViewBindGroup"),
                 k \in Issued(pass[j].item, "SetMesh2dBindGroup") :
                    /\ i < k /\ k < j
                    /\ pass[i].op = "set_bind_group"
                    /\ pass[k].op = "set_bind_group"
    /\ \A k \in 1..Len(pass) :
          pass[k].by = "SetMesh2dBindGroup" =>
              /\ Issued(pass[k].item, "SetMesh2dViewBindGroup") # {}
              /\ \A i \in Issued(pass[k].item, "SetMesh2dViewBindGroup") : i < k
    /\ \A j \in 1..Len(pass) :
          pass[j].by = "DrawMesh2d" =>
              /\ \A i \in Issued(pass[j].item, "SetMesh2dViewBindGroup") : i < j
              /\ \A k \in Issued(pass[j].item, "SetMesh2dBindGroup") : k < j

C11_Witness ==
    /\ pc = "cleanup"
    /\ \E e1, e2 \in Entities :
          /\ e1 # e2
          /\ DrawCalls(e1) # {}
          /\ DrawCalls(e2) # {}
          /\ Issued(e1, "SetMesh2dViewBindGroup") # {}
          /\ Issued(e1, "SetMesh2dBindGroup") # {}

\* The commands DrawMesh2d recorded for item e, in order.
DrawMesh2dCommands(e) == SelectSeq(pass, LAMBDA c : c.item = e /\ c.by = "DrawMesh2d")
Processed(e) == OutcomesOf(e) # {}

\* C12: for a processed item whose mesh resolves, DrawMesh2d records the
\* vertex buffer at slot 0 and then one draw call: an Indexed mesh gets its
\* index buffer bound and an indexed draw over [0, count) with base vertex 0
\* and instances [0, 1); a NonIndexed mesh gets a draw over [0, vertex_count)
\* with instances [0, 1) and no index buffer; the item's result is Success.
C12_DrawVariant ==
    \A e \in Entities :
        (Processed(e) /\ Resolves(e) /\ pc # "panicked") =>
            LET cmds == DrawMesh2dCommands(e)
                gpu_mesh == gpu_meshes[HandleOf(e)]
                info == gpu_mesh.buffer_info
            IN  /\ \A i \in OutcomesOf(e) : outcomes[i].result = "Success"
                /\ Cardinality(DrawCalls(e)) = 1
                /\ Len(cmds) >= 2
                /\ cmds[1].op = "set_vertex_buffer"
                /\ cmds[1].slot = 0
                /\ cmds[1].buffer = gpu_mesh.vertex_buffer
                /\ info.tag = "Indexed" =>
                      /\ Len(cmds) = 3
                      /\ cmds[2].op = "set_index_buffer"
                      /\ cmds[2].buffer = info.buffer
                      /\ cmds[2].offset = 0
                      /\ cmds[2].index_format = info.index_format
                      /\ cmds[3].op = "draw_indexed"
                      /\ cmds[3].indices = <<0, info.count>>
                      /\ cmds[3].base_vertex = 0
                      /\ cmds[3].instances = <<0, 1>>
                /\ info.tag = "NonIndexed" =>
                      /\ Len(cmds) = 2
                      /\ cmds[2].op = "draw"
                      /\ cmds[2].vertices = <<0, info.vertex_count>>
                      /\ cmds[2].instances = <<0, 1>>
                      /\ \A i \in 1..Len(pass) : pass[i].item = e => pass[i].op # "set_index_buffer"

C12_Witness ==
    /\ pc = "cleanup"
    /\ \E e1, e2 \in Entities :
          /\ Processed(e1) /\ Resolves(e1) /\ gpu_meshes[HandleOf(e1)].buffer_info.tag = "Indexed"
          /\ Processed(e2) /\ Resolves(e2) /\ gpu_meshes[HandleOf(e2)].buffer_info.tag = "NonIndexed"
          /\ \E i \in DrawCalls(e1) : pass[i].op = "draw_indexed"
          /\ \E i \in DrawCalls(e2) : pass[i].op = "draw"

\* queue_mesh2d_view_bind_groups has run in this frame.
ViewGroupsQueued == pc \in {"draw", "cleanup"} \/ (pc = "queue" /\ "queue_mesh2d_view_bind_groups" \in queue_done)
\* The bind groups that exist in the render world.
ViewGroups == {views[v].bind_group : v \in {x \in DOMAIN views : views[x].bind_group.tag = "Some"}}
MeshGroups == IF mesh_bind_group.tag = "Some" THEN {mesh_bind_group} ELSE {}
\* The set_bind_group commands recorded in this frame's pass.
BindCommands == {i \in 1..Len(pass) : pass[i].op = "set_bind_group"}
\* The tag of the frame before the current one.
PreviousFrame == ((frame + FramePeriod - 2) % FramePeriod) + 1
BuiltIn(group) == group.id[1]

C13_State ==
    /\ (MeshGroupQueued /\ UniformBinding(uniform_buffer).tag = "Some") =>
          /\ mesh_bind_group.tag = "Some"
          /\ BuiltIn(mesh_bind_group) = frame
    /\ (ViewGroupsQueued /\ UniformBinding(view_uniforms).tag = "Some") =>
          \A v \in DOMAIN views :
              /\ views[v].bind_group.tag = "Some"
              /\ BuiltIn(views[v].bind_group) = frame
    /\ \A g \in ViewGroups \cup MeshGroups : BuiltIn(g) = frame /\ BuiltIn(g) # PreviousFrame
    /\ Cardinality({g.id : g \in ViewGroups \cup MeshGroups}) = Cardinality(ViewGroups) + Cardinality(MeshGroups)
    /\ pc \in {"sim", "extract_views", "prepare"} => ViewGroups \cup MeshGroups = {}
    /\ \A i \in BindCommands :
          /\ pass[i].group \in ViewGroups \cup MeshGroups
          /\ BuiltIn(pass[i].group) # PreviousFrame

C13_Step ==
    /\ frame' # frame => (pc = "sim" /\ frame = PreviousFrame')
    /\ mesh_bind_group.tag = "Some" =>
          \/ mesh_bind_group' = mesh_bind_group
          \/ pc = "cleanup" /\ mesh_bind_group' = None
    /\ \A v \in DOMAIN views :
          views[v].bind_group.tag = "Some" =>
              \/ v \in DOMAIN views' /\ views'[v].bind_group = views[v].bind_group
              \/ pc = "cleanup" /\ views' = <<>>
    /\ pc = "cleanup" => (mesh_bind_group' = None /\ views' = <<>>)

\* C13: in each frame with object (view) uniform data the mesh (view) bind
\* group is one built in that frame; a built group is not changed until the
\* end of the frame, where it is discarded; the groups of consecutive frames
\* are distinct instances, and every bind command of a frame references a
\* group built in that frame, never one of the frame before (SpecViews).
C13_BindGroupLifecycle == []C13_State /\ [][C13_Step]_vars

C13_Witness ==
    /\ pc = "cleanup"
    /\ frame = 1
    /\ prev_records # {}
    /\ \E i, j \in BindCommands :
          /\ pass[i].group = mesh_bind_group
          /\ pass[j].group \in ViewGroups
    /\ Cardinality(ViewGroups) = NumViews

(***************************************************************************)
(* The Extract stage step by step (checked under SpecStages): the query    *)
(* yields the entities in any order, the batch is staged as one command    *)
(* and the commands are applied when the stage ends.                       *)
(***************************************************************************)
\* extract_mesh2d starts: let mut values = Vec::with_capacity(*previous_len)
StageExtractBegin ==
    /\ pc = "sim"
    /\ values' = VecWithCapacity(previous_len)
    /\ visited' = {}
    /\ frame' = (frame % FramePeriod) + 1
    /\ pc' = "extracting"
    /\ UNCHANGED <<queue_done, world, cameras, views, view_uniforms, rendered_view,
                   previous_len, render, prev_records, uniform_buffer, mesh_bind_group,
                   device_calls, gpu_meshes, phase, pass, outcomes>>
    /\ UNCHANGED <<keyVars, texVars, cacheVars>>

\* A loop body that inserts the entity's bundle into the render world at once.
StageExtractEntity_immediate_insert ==
    \E e \in Entities \ visited :
        /\ pc = "extracting"
        /\ visited' = visited \cup {e}
        /\ render' = IF ~world[e].is_visible THEN render
                     ELSE insert_or_spawn_batch(render, <<ExtractedValue(world, e)>>)
        /\ UNCHANGED <<pc, frame, queue_done, world, cameras, views, view_uniforms, rendered_view, values,
                       previous_len, prev_records, uniform_buffer, mesh_bind_group,
                       device_calls, gpu_meshes, phase, pass, outcomes>>
        /\ UNCHANGED <<keyVars, texVars, cacheVars>>

\* One iteration of the loop of extract_mesh2d, for the entity the query yields next.
StageExtractEntity ==
    \E e \in Entities \ visited :
        /\ pc = "extracting"
        /\ visited' = visited \cup {e}
        /\ values' = IF ~world[e].is_visible THEN values ELSE VecPush(values, ExtractedValue(world, e))
        /\ UNCHANGED <<pc, frame, queue_done, world, cameras, views, view_uniforms, rendered_view,
                       previous_len, render, prev_records, uniform_buffer, mesh_bind_group,
                       device_calls, gpu_meshes, phase, pass, outcomes>>
        /\ UNCHANGED <<keyVars, texVars, cacheVars>>

\* The loop is over: *previous_len = values.len(); commands.insert_or_spawn_batch(values)
StageExtractStaged ==
    /\ pc = "extracting"
    /\ visited = Entities
    /\ previous_len' = Len(values.items)
    /\ pc' = "staged"
    /\ UNCHANGED <<frame, queue_done, world, cameras, views, view_uniforms, rendered_view, values, visited,
                   render, prev_records, uniform_buffer, mesh_bind_group,
                   device_calls, gpu_meshes, phase, pass, outcomes>>
    /\ UNCHANGED <<keyVars, texVars, cacheVars>>

\* The stage ends: the staged commands are applied to the render world.
StageApplyCommands ==
    /\ pc = "staged"
    /\ render' = insert_or_spawn_batch(render, values.items)
    /\ values' = VecWithCapacity(0)
    /\ visited' = {}
    /\ pc' = "extract_views"
    /\ UNCHANGED <<frame, queue_done, world, cameras, views, view_uniforms, rendered_view,
                   previous_len, prev_records, uniform_buffer, mesh_bind_group,
                   device_calls, gpu_meshes, phase, pass, outcomes>>
    /\ UNCHANGED <<keyVars, texVars, cacheVars>>

NextStages ==
    \/ SetVisibility
    \/ StageExtractBegin
    \/ StageExtractEntity
    \/ StageExtractStaged
    \/ StageApplyCommands
    \/ ExtractViews
    \/ Prepare
    \/ QueueMesh2dBindGroup
    \/ QueueMesh2dViewBindGroups
    \/ QueueItems
    \/ DrawItem
    \/ FinishDraw
    \/ Cleanup

\* The stages in the order a frame goes through them.
StageOrder ==
    {<<"sim", "extracting">>, <<"extracting", "staged">>, <<"staged", "extract_views">>,
     <<"extract_views", "prepare">>, <<"prepare", "queue">>, <<"queue", "draw">>,
     <<"draw", "cleanup">>, <<"draw", "panicked">>, <<"cleanup", "sim">>}
Visible == {e \in Entities : world[e].is_visible}

C14_State ==
    \* while extract_mesh2d runs and until its commands are applied, the
    \* render world holds nothing of the batch
    /\ pc \in {"extracting", "staged"} => render = <<>>
    \* from then on every stage sees the whole batch
    /\ Extracted =>
          /\ DOMAIN render = Visible
          /\ \A e \in DOMAIN render : render[e].uniform = Mesh2dUniform(compute_matrix(world[e].transform))
    \* Queue consumes what Prepare has fully produced
    /\ pc \in {"queue", "draw", "cleanup"} =>
          /\ \A e \in DOMAIN render : render[e].index.tag = "Some"
          /\ uniform_buffer = AggregateUniforms(render)
    /\ (pc = "queue" /\ "queue_items" \in queue_done) \/ pc \in {"draw", "cleanup"} =>
          {phase[i] : i \in 1..Len(phase)} = Visible
    \* Draw starts when every system of Queue has run
    /\ pc \in {"draw", "cleanup"} => queue_done = QueueSystems
    /\ pc \notin {"queue", "draw", "cleanup", "panicked"} => (queue_done = {} /\ pass = <<>>)

C14_Step ==
    /\ pc' # pc => <<pc, pc'>> \in StageOrder
    /\ render' # render => pc \in {"staged", "prepare", "cleanup"}
    /\ pass' # pass => pc \in {"draw", "cleanup"}

\* C14: the stages of a frame run in order, each one after the one before
\* it has finished; the batch extract_mesh2d stages is applied as a whole,
\* so that no later stage sees a part of it, whatever the order in which the
\* entities were visited.
C14_StageBarrier == []C14_State /\ [][C14_Step]_vars

C14_Witness ==
    /\ pc = "extracting"
    /\ visited = {2, 3}
    /\ Len(values.items) = 2
    /\ values.items[1].entity = 3
    /\ render = <<>>
    /\ prev_records # {}

(***************************************************************************)
(* Frames that keep running (checked under SpecLive).                      *)
(***************************************************************************)
NextLive ==
    \/ SetVisibilityOfFlickering
    \/ FrameStep

\* The item of entity e was processed in this frame with the result.
ItemResult(e, result) == \E i \in OutcomesOf(e) : outcomes[i].result = result

\* Between extraction and Prepare the registry is still the one the frame
\* before drew with: the entity had an item then and its mesh did not resolve.
FailedLastFrame(e) ==
    /\ pc \in {"extract_views", "prepare"}
    /\ e \in prev_records
    /\ ~Resolves(e)

\* A frame's failures are the extracted entities whose mesh does not resolve;
\* an entity that failed in the frame before and is still visible has a record
\* again, and a frame that ends has attempted every visible entity.
C15_Retried ==
    /\ pc = "cleanup" =>
          \A e \in Entities : ItemResult(e, "Failure") <=> (e \in DOMAIN render /\ ~Resolves(e))
    /\ \A e \in Entities : (FailedLastFrame(e) /\ world[e].is_visible) => e \in DOMAIN render
    /\ pc = "cleanup" => \A e \in Visible : Processed(e)
    /\ pc # "panicked"

\* Once the entity stays visible and its mesh stays resolvable, its item is
\* drawn with Success again and again.
C15_EventuallyDrawn ==
    \A e \in Entities :
        <>[](world[e].is_visible /\ Resolves(e))
            => []<>(pc = "cleanup" /\ ItemResult(e, "Success") /\ DrawCalls(e) # {})

\* Every frame runs to its end, whatever the meshes that do not resolve.
C15_FramesComplete == \A f \in 1..FramePeriod : []<>(pc = "cleanup" /\ frame = f)

\* C15: an item whose mesh did not resolve is extracted and attempted again
\* in the next frame while the entity stays visible; if the mesh becomes and
\* stays resolvable the item is eventually drawn with Success; every frame
\* runs to completion meanwhile.
C15_RetryWithoutStall == []C15_Retried /\ C15_EventuallyDrawn /\ C15_FramesComplete

\* An entity that failed in the frame before (it was extracted and its mesh
\* was not in the registry) is extracted again, and its mesh resolves now.
C15_Witness ==
    /\ pc = "cleanup"
    /\ \E e \in Entities :
          /\ e \in prev_records
          /\ ItemResult(e, "Success")
          /\ \E x \in prev_records \ {e} : ItemResult(x, "Failure")

(***************************************************************************)
(* Frames with and without an active camera (checked under SpecViews).     *)
(***************************************************************************)
NextViews ==
    \/ SetVisibility
    \/ SetCamera
    \/ DeactivateLastCamera
    \/ Extract
    \/ ExtractViews
    \/ Prepare
    \/ QueueMesh2dBindGroup
    \/ QueueMesh2dViewBindGroups
    \/ QueueItems
    \/ DrawItem
    \/ FinishDraw
    \/ Cleanup

\* C16: once queue_mesh2d_view_bind_groups has run in a frame with view
\* uniform data, each extracted view (one per active camera) carries one
\* bind group of its own, made for the view layout with the view uniform
\* buffer at binding 0; in a frame without view uniform data the system
\* creates no bind group and no view carries one.
C16_ViewBindGroups ==
    /\ ViewGroupsQueued =>
          IF UniformBinding(view_uniforms).tag = "Some"
          THEN /\ DOMAIN views = cameras
               /\ \A v \in DOMAIN views :
                     /\ views[v].bind_group.tag = "Some"
                     /\ views[v].bind_group.layout = "view_layout"
                     /\ views[v].bind_group.binding0 = UniformBinding(view_uniforms)
                     /\ views[v].bind_group.label = "mesh2d_view_bind_group"
               /\ \A v1, v2 \in DOMAIN views :
                     v1 # v2 => views[v1].bind_group.id # views[v2].bind_group.id
               /\ Cardinality(CallsFor("mesh2d_view_bind_group")) = Cardinality(cameras)
          ELSE /\ ViewGroups = {}
               /\ CallsFor("mesh2d_view_bind_group") = {}
    /\ ~ViewGroupsQueued => (ViewGroups = {} /\ CallsFor("mesh2d_view_bind_group") = {})
    /\ pc # "panicked"

C16_Witness ==
    /\ pc = "draw"
    /\ Cardinality(cameras) = NumViews
    /\ Cardinality(ViewGroups) = NumViews
    /\ UniformBinding(view_uniforms).tag = "Some"
    /\ mesh_bind_group.tag = "Some"

(***************************************************************************)
(* Transforms that change between frames (checked under SpecTransform).    *)
(***************************************************************************)
NextTransform ==
    \/ SetVisibility
    \/ SetTransform
    \/ Extract
    \/ ExtractViews
    \/ Prepare
    \/ QueueMesh2dBindGroup
    \/ QueueMesh2dViewBindGroups
    \/ QueueItems
    \/ DrawItem
    \/ FinishDraw
    \/ Cleanup

\* C17: after extract_mesh2d the mesh records of the render world are those
\* of the entities visible in this frame, one each; a record holds a weak
\* handle to the entity's mesh and the uniform of the entity's transform of
\* this frame: the matrix, its inverse transpose, and flags 0.
C17_RecordsReplaced ==
    Extracted =>
        /\ DOMAIN render = {e \in Entities : world[e].is_visible}
        /\ \A e \in DOMAIN render :
              LET m == compute_matrix(world[e].transform)
              IN  /\ render[e].handle.id = Mesh2dHandleOf(e).id
                  /\ render[e].handle.strength = "Weak"
                  /\ render[e].uniform.transform = m
                  /\ render[e].uniform.inverse_transpose_model = MatTranspose(MatInverse(m))
                  /\ render[e].uniform.flags = 0

\* Entity 1 had a record in the frame before and is extracted with a
\* transform that is not the initial one; entity 2 had one and is not visible.
C17_Witness ==
    /\ pc = "prepare"
    /\ {1, 2} \subseteq prev_records
    /\ world[1].is_visible
    /\ world[1].transform # GlobalTransform(1, 0)
    /\ ~world[2].is_visible
    /\ world[3].is_visible
    /\ world[3].transform = GlobalTransform(1, 0)

\* C18: a recorded mesh bind uses the mesh bind group with the one dynamic
\* index the aggregator gave the record of the same item, which is where that
\* item's uniform lies in the aggregated buffer; a recorded view bind uses the
\* bind group of the view being rendered with that view's uniform offset
\* (SpecViews).
C18_DynamicOffsets ==
    \A i \in BindCommands :
        LET c == pass[i]
        IN  /\ c.by = "SetMesh2dBindGroup" =>
                  /\ c.group = mesh_bind_group
                  /\ c.group.label = "mesh2d_bind_group"
                  /\ c.offsets = <<render[c.item].index.index>>
                  /\ c.offsets[1] = UniformPosition(render, c.item)
                  /\ uniform_buffer.contents[c.offsets[1] + 1] = render[c.item].uniform
                  /\ \A x \in DOMAIN render \ {c.item} : render[x].index.index # c.offsets[1]
            /\ c.by = "SetMesh2dViewBindGroup" =>
                  /\ rendered_view.tag = "Some"
                  /\ c.group = views[rendered_view.entity].bind_group
                  /\ c.group.label = "mesh2d_view_bind_group"
                  /\ c.offsets = <<views[rendered_view.entity].offset.index>>
                  /\ view_uniforms.contents[c.offsets[1] + 1] = [view |-> rendered_view.entity]
            /\ c.by \in {"SetMesh2dBindGroup", "SetMesh2dViewBindGroup"}

C18_Witness ==
    /\ pc = "cleanup"
    /\ Cardinality(DOMAIN views) = NumViews
    /\ \E i, j \in BindCommands :
          /\ pass[i].by = "SetMesh2dBindGroup"
          /\ pass[i].offsets[1] > 0
          /\ pass[j].by = "SetMesh2dViewBindGroup"
          /\ pass[j].offsets[1] > 0
          /\ pass[j].item = pass[i].item

\* The values previous_len may hold when extract_mesh2d runs: too small, exact or too large.
HintValues == 0..(NumEntities + 1)

\* C20: after each extraction previous_len is the number of visible entities
\* extracted in that frame, and extract_mesh2d run on the same simulation
\* world with any other value of previous_len stages the same batch and
\* gives the same records.
C20_CapacityHint ==
    /\ Extracted => previous_len = Cardinality(Visible)
    /\ pc = "extract_views" =>
          \A n \in HintValues :
              LET run == extract_mesh2d(world, n)
              IN  /\ run.items = extract_mesh2d(world, Cardinality(prev_records)).items
                  /\ Len(run.items) = previous_len
                  /\ insert_or_spawn_batch(<<>>, run.items) = render
                  /\ run.capacity >= Len(run.items)

\* The frame before extracted one entity (the hint was 1) and this frame
\* extracted all of them.
C20_Witness ==
    /\ pc = "extract_views"
    /\ Cardinality(prev_records) = 1
    /\ previous_len = NumEntities
    /\ DOMAIN render = Entities

\* C21: when the render phase of a frame holds a draw item and the Queue
\* stage is over, the mesh bind group exists, every item has its dynamic
\* uniform index, and the view being rendered has its bind group and its
\* uniform offset; no lookup of SetMesh2dViewBindGroup or SetMesh2dBindGroup
\* fails: no item ends in a panic, in the first frame or in any later one
\* (SpecViews).
C21_BindsHaveResources ==
    /\ (pc \in {"draw", "cleanup"} /\ Len(phase) > 0) =>
          /\ mesh_bind_group.tag = "Some"
          /\ \A i \in 1..Len(phase) :
                /\ phase[i] \in DOMAIN render
                /\ render[phase[i]].index.tag = "Some"
          /\ rendered_view.tag = "Some"
          /\ rendered_view.entity \in DOMAIN views
          /\ views[rendered_view.entity].bind_group.tag = "Some"
          /\ views[rendered_view.entity].offset.tag = "Some"
    /\ \A i \in 1..Len(outcomes) :
          /\ outcomes[i].result # "Panic"
          /\ Issued(outcomes[i].item, "SetMesh2dViewBindGroup") # {}
          /\ Issued(outcomes[i].item, "SetMesh2dBindGroup") # {}
    /\ pc # "panicked"

\* A frame that is not the first and follows a frame without records has
\* processed its draw items.
C21_Witness ==
    /\ pc = "cleanup"
    /\ frame = 1
    /\ prev_records = {}
    /\ Len(phase) = NumEntities
    /\ Len(outcomes) = Len(phase)
    /\ Cardinality(BindCommands) = 2 * NumEntities

(***************************************************************************)
(* Specifications                                                          *)
(***************************************************************************)
InitKey ==
    /\ key_in \in BuiltInputs \cup RawInputs
    /\ key = NoKey
    /\ key_out = NoOutput
    /\ TexIdle
    /\ CacheIdle
    /\ FrameIdle

InitTex ==
    /\ TexIdle
    /\ KeyIdle
    /\ CacheIdle
    /\ FrameIdle

InitCache ==
    /\ CacheIdle
    /\ KeyIdle
    /\ TexIdle
    /\ FrameIdle

Init ==
    /\ FrameIdle
    /\ KeyIdle
    /\ TexIdle
    /\ CacheIdle

Spec == Init /\ [][Next]_vars

SpecKey == InitKey /\ [][NextKey]_vars

SpecTex == InitTex /\ [][NextTex]_vars

SpecCache == InitCache /\ [][NextCache]_vars

SpecStages == Init /\ [][NextStages]_vars

SpecTransform == Init /\ [][NextTransform]_vars

SpecViews == Init /\ [][NextViews]_vars

\* The render schedule runs every frame and each stage runs to its end.
SpecLive == Init /\ [][NextLive]_vars /\ WF_vars(FrameStep)

====
